---------------------------- MODULE Spec2Model ----------------------------
(***************************************************************************)
(* Resume screening: ResumeParser (resume_parser.py), SkillMatcher         *)
(* (skill_matcher.py) and the screening loop of app.py.                    *)
(*                                                                         *)
(* Texts are TLA+ strings; Len, SubSeq, Head, Tail and \o act on them as   *)
(* on sequences of characters.  Scores are integers counting hundredths of *)
(* a point (81.0 is 8100), so that round(x, 2) is a rounding to an integer.*)
(***************************************************************************)
EXTENDS Integers, Sequences, FiniteSets, TLC

VARIABLES
    pc,                \* position of the running operation
    job_description,   \* the job text handed to the matcher
    file,              \* the uploaded file of the single-resume pipeline
    resumes_data,      \* app.py all_parsed_resumes / rank_candidates' batch
    job_skills,        \* the map returned by extract_job_skills
    ranked_candidates, \* rank_candidates' local list, returned at the end
    idx,               \* loop index of rank_candidates' two loops
    resume_data,       \* the record returned by parse_resume (single pipeline)
    score_data,        \* the breakdown returned by calculate_overall_score
    match_call         \* a direct call of calculate_skill_match_score

vars == << pc, job_description, file, resumes_data, job_skills,
           ranked_candidates, idx, resume_data, score_data, match_call >>

None == "none"

----------------------------------------------------------------------------
(* Python str methods, on ASCII text *)

UpperLetters == "ABCDEFGHIJKLMNOPQRSTUVWXYZ"
LowerLetters == "abcdefghijklmnopqrstuvwxyz"
Digits == "0123456789"
Whitespace == {" ", "\n", "\t"}

\* the position of character c in the string s, 0 when absent
IndexOf(c, s) ==
    IF \E i \in 1..Len(s) : SubSeq(s, i, i) = c
    THEN CHOOSE i \in 1..Len(s) : SubSeq(s, i, i) = c
    ELSE 0

Chars(s) == {SubSeq(s, i, i) : i \in 1..Len(s)}

\* the case mappings of the ASCII letters, as tables
to_lower ==
    [c \in Chars(UpperLetters) |->
        SubSeq(LowerLetters, IndexOf(c, UpperLetters), IndexOf(c, UpperLetters))]

to_upper ==
    [c \in Chars(LowerLetters) |->
        SubSeq(UpperLetters, IndexOf(c, LowerLetters), IndexOf(c, LowerLetters))]

digit_value == [c \in Chars(Digits) |-> IndexOf(c, Digits) - 1]

IsUpper(c) == c \in DOMAIN to_lower
IsLower(c) == c \in DOMAIN to_upper
IsCased(c) == IsUpper(c) \/ IsLower(c)
IsDigit(c) == c \in DOMAIN digit_value
IsSpace(c) == c \in Whitespace

LowerChar(c) == IF IsUpper(c) THEN to_lower[c] ELSE c      \* of one character, or of ""

UpperChar(c) == IF IsLower(c) THEN to_upper[c] ELSE c

RECURSIVE Lower(_)
\* str.lower(), character by character (the string is halved to keep the
\* recursion shallow)
Lower(s) ==
    IF Len(s) <= 1 THEN LowerChar(s)
    ELSE LET h == Len(s) \div 2
         IN  Lower(SubSeq(s, 1, h)) \o Lower(SubSeq(s, h + 1, Len(s)))

\* str.title(): a cased character is upper-cased when the character before it
\* is not cased, lower-cased otherwise; uncased characters are kept
TitleChar(s, i) ==
    LET c == SubSeq(s, i, i)
        previous_is_cased == i > 1 /\ IsCased(SubSeq(s, i - 1, i - 1))
    IN  IF ~IsCased(c) THEN c
        ELSE IF previous_is_cased THEN LowerChar(c) ELSE UpperChar(c)

RECURSIVE TitleRange(_, _, _)
\* the title-cased characters i..j of s
TitleRange(s, i, j) ==
    IF i > j THEN ""
    ELSE IF i = j THEN TitleChar(s, i)
    ELSE LET h == (i + j) \div 2
         IN  TitleRange(s, i, h) \o TitleRange(s, h + 1, j)

Title(s) == TitleRange(s, 1, Len(s))

\* Python `sub in text` on strings
Contains(text, sub) ==
    \E i \in 1..(Len(text) - Len(sub) + 1) : SubSeq(text, i, i + Len(sub) - 1) = sub

\* Python `x in list`
InList(x, list) == \E i \in 1..Len(list) : list[i] = x

\* [f(x) for x in list]
MapSeq(f(_), list) == [i \in 1..Len(list) |-> f(list[i])]

\* [x for x in list if test(x)]
FilterSeq(test(_), list) == SelectSeq(list, test)

RECURSIVE Strip(_)
\* str.strip()
Strip(s) ==
    IF s = "" THEN ""
    ELSE IF IsSpace(Head(s)) THEN Strip(Tail(s))
    ELSE IF IsSpace(SubSeq(s, Len(s), Len(s))) THEN Strip(SubSeq(s, 1, Len(s) - 1))
    ELSE s

----------------------------------------------------------------------------
(* SkillMatcher.__init__ *)

skill_categories ==
  [ programming_languages |->
        << "python", "java", "javascript", "c++", "c#", "php", "ruby", "go", "rust",
           "swift", "kotlin", "scala", "r", "matlab", "perl", "shell", "bash",
           "powershell" >>,
    web_technologies |->
        << "html", "css", "react", "angular", "vue", "node.js", "express", "django",
           "flask", "spring", "laravel", "asp.net", "jsp", "servlets", "jquery",
           "bootstrap", "sass" >>,
    databases |->
        << "sql", "mysql", "postgresql", "mongodb", "oracle", "sql server",
           "sqlite", "redis", "cassandra", "dynamodb", "firebase", "elasticsearch",
           "neo4j" >>,
    cloud_platforms |->
        << "aws", "azure", "google cloud", "gcp", "heroku", "digitalocean",
           "linode", "vultr" >>,
    devops_tools |->
        << "docker", "kubernetes", "jenkins", "git", "github", "gitlab",
           "bitbucket", "jira", "confluence", "terraform", "ansible", "chef",
           "puppet" >>,
    ai_ml_tools |->
        << "machine learning", "ai", "artificial intelligence", "tensorflow",
           "pytorch", "scikit-learn", "keras", "opencv", "nltk", "spacy", "pandas",
           "numpy", "matplotlib", "seaborn" >>,
    data_analysis |->
        << "data analysis", "data visualization", "excel", "powerbi", "tableau",
           "qlik", "looker", "apache spark", "hadoop", "kafka", "airflow", "dbt" >>,
    soft_skills |->
        << "leadership", "communication", "teamwork", "problem solving",
           "critical thinking", "project management", "agile", "scrum", "kanban",
           "customer service", "sales" >> ]

\* the keys of skill_categories, in the order the dict yields them
category_order ==
    << "programming_languages", "web_technologies", "databases", "cloud_platforms",
       "devops_tools", "ai_ml_tools", "data_analysis", "soft_skills" >>

Categories == DOMAIN skill_categories

RECURSIVE Flatten(_)
Flatten(lists) == IF lists = << >> THEN << >> ELSE Head(lists) \o Flatten(Tail(lists))

\* self.all_skills
all_skills == Flatten([i \in 1..Len(category_order) |-> skill_categories[category_order[i]]])

----------------------------------------------------------------------------
(* SkillMatcher.extract_job_skills *)

\* a fallback list with a phrase the taxonomy does not have
basic_skills_with_linux ==
    << "python", "java", "javascript", "html", "css", "sql", "react", "node.js",
       "linux" >>

basic_skills ==
    << "python", "java", "javascript", "html", "css", "sql", "react", "node.js" >>

\* the phrases found, appended as they are in the taxonomy
FoundIn_untitled(text_lower, skills) ==
    LET hit(skill) == Contains(text_lower, skill)
    IN  FilterSeq(hit, skills)

\* the title-cased phrases of `skills` found in the lower-cased text, in order
FoundIn(text_lower, skills) ==
    LET hit(skill) == Contains(text_lower, skill)
    IN  MapSeq(Title, FilterSeq(hit, skills))

EmptyMap == [c \in {} |-> << >>]

\* extract_job_skills matching against the description as written
extract_job_skills_case_sensitive(description) ==
    LET category_found == [c \in Categories |-> FoundIn(description, skill_categories[c])]
        found_skills ==
            [c \in {k \in Categories : category_found[k] # << >>} |-> category_found[c]]
        basic_found == FoundIn(description, basic_skills)
    IN  IF DOMAIN found_skills # {} THEN found_skills
        ELSE IF basic_found # << >> THEN [c \in {"general_skills"} |-> basic_found]
        ELSE EmptyMap

extract_job_skills(description) ==
    LET job_lower == Lower(description)
        category_found == [c \in Categories |-> FoundIn(job_lower, skill_categories[c])]
        found_skills ==
            [c \in {k \in Categories : category_found[k] # << >>} |-> category_found[c]]
        basic_found == FoundIn(job_lower, basic_skills)
    IN  IF DOMAIN found_skills # {} THEN found_skills
        ELSE IF basic_found # << >> THEN [c \in {"general_skills"} |-> basic_found]
        ELSE EmptyMap

----------------------------------------------------------------------------
(* Rounding.  A score x is held as the integer 100 * x.  round(num / den, 2) is *)
(* the nearest integer to num / den in these units; when num / den lies exactly *)
(* half way between two of them, the binary float that Python rounds lies a     *)
(* rounding error above or below the half-way point, so either neighbour can be *)
(* the result.                                                                  *)

round2(num, den) ==
    LET q == num \div den
        r == num % den
    IN  IF 2 * r < den THEN {q}
        ELSE IF 2 * r > den THEN {q + 1}
        ELSE {q, q + 1}

Min(a, b) == IF a <= b THEN a ELSE b

RECURSIVE SumOver(_, _)
SumOver(f, S) ==
    IF S = {} THEN 0
    ELSE LET x == CHOOSE y \in S : TRUE IN f[x] + SumOver(f, S \ {x})

----------------------------------------------------------------------------
(* SkillMatcher.calculate_skill_match_score *)

\* matches counted without lower-casing the two lists
matches_case_sensitive(resume_skills, required) ==
    Cardinality({i \in 1..Len(required) : InList(required[i], resume_skills)})

\* matches = sum(1 for skill in job_lower if skill in resume_lower)
matches(resume_skills, required) ==
    LET resume_lower == MapSeq(Lower, resume_skills)
        job_lower == MapSeq(Lower, required)
    IN  Cardinality({i \in 1..Len(job_lower) : InList(job_lower[i], resume_lower)})

\* a bonus that falls with the length of the skill list
skill_count_bonus_falling(resume_skills) == 500 - Min(500, Len(resume_skills) * 50)

\* skill_count_bonus = min(5, len(resume_skills) * 0.5), in hundredths
skill_count_bonus(resume_skills) == Min(500, Len(resume_skills) * 50)

\* coverage_bonus without the cap at 10
coverage_bonus_num_uncapped(resume_skills, required) ==
    2000 * matches(resume_skills, required)

\* coverage_bonus = min(10, (matches / len(job_lower)) * 20), in hundredths times
\* len(job_lower)
coverage_bonus_num(resume_skills, required) ==
    Min(1000 * Len(required), 2000 * matches(resume_skills, required))

\* final_score without the cap at 100
final_score_num_uncapped(resume_skills, required) ==
    10000 * matches(resume_skills, required)
      + skill_count_bonus(resume_skills) * Len(required)
      + coverage_bonus_num(resume_skills, required)

\* final_score before rounding, in hundredths times len(job_lower)
final_score_num(resume_skills, required) ==
    Min(10000 * Len(required),
        10000 * matches(resume_skills, required)
          + skill_count_bonus(resume_skills) * Len(required)
          + coverage_bonus_num(resume_skills, required))

\* The value is a multiple of 1 / len(job_skills) hundredths and can lie half
\* way between two hundredths only when len(job_skills) is a multiple of 32, so
\* for shorter lists (the longest taxonomy category has 18 skills)
\* round(final_score, 2) has one outcome.
calculate_skill_match_score(resume_skills, required) ==
    IF required = << >> THEN 0
    ELSE IF resume_skills = << >> THEN 0
    ELSE CHOOSE v \in round2(final_score_num(resume_skills, required), Len(required)) :
            \A w \in round2(final_score_num(resume_skills, required), Len(required)) :
                v <= w

----------------------------------------------------------------------------
(* SkillMatcher.calculate_overall_score *)

\* the first maximal run of digits of the text: re.search(r'(\d+)', text);
\* "" when the text has no digit
RECURSIVE DigitRun(_)
DigitRun(s) ==
    IF s = "" \/ ~IsDigit(Head(s)) THEN "" ELSE Head(s) \o DigitRun(Tail(s))

RECURSIVE FirstDigits(_)
FirstDigits(s) ==
    IF s = "" THEN ""
    ELSE IF IsDigit(Head(s)) THEN DigitRun(s)
    ELSE FirstDigits(Tail(s))

RECURSIVE ParseInt(_)
\* int() of a string of digits
ParseInt(d) ==
    IF d = "" THEN 0
    ELSE 10 * ParseInt(SubSeq(d, 1, Len(d) - 1))
         + digit_value[SubSeq(d, Len(d), Len(d))]

\* dict.get(key, default)
Get(record, key, default) == IF key \in DOMAIN record THEN record[key] ELSE default

resume_skills_of(record) == Get(record, "skills", << >>)

\* category_scores without the test `if skills`
category_scores_unfiltered(record, requirements) ==
    [c \in DOMAIN requirements |->
        calculate_skill_match_score(resume_skills_of(record), requirements[c])]

category_scores(record, requirements) ==
    [c \in {k \in DOMAIN requirements : requirements[k] # << >>} |->
        calculate_skill_match_score(resume_skills_of(record), requirements[c])]

\* the values round(total_score / category_count, 2) can take
skill_scores(record, requirements) ==
    LET scores == category_scores(record, requirements)
        total_score == SumOver(scores, DOMAIN scores)
        category_count == Cardinality(DOMAIN scores)
    IN  IF category_count > 0 THEN round2(total_score, category_count) ELSE {0}

\* the thresholds taken as exclusive: years > 8, > 5, > 3, > 1
experience_bonus_exclusive(record) ==
    LET experience_text == Get(record, "experience", "")
        digits == FirstDigits(experience_text)
        years == ParseInt(digits)
    IN  IF ~Contains(Lower(experience_text), "years") THEN 0
        ELSE IF digits = "" THEN 0
        ELSE IF years > 8 THEN 15
        ELSE IF years > 5 THEN 12
        ELSE IF years > 3 THEN 8
        ELSE IF years > 1 THEN 5
        ELSE 0

experience_bonus(record) ==
    LET experience_text == Get(record, "experience", "")
        digits == FirstDigits(experience_text)
        years == ParseInt(digits)
    IN  IF ~Contains(Lower(experience_text), "years") THEN 0
        ELSE IF digits = "" THEN 0      \* re.search returns None: except, pass
        ELSE IF years >= 8 THEN 15
        ELSE IF years >= 5 THEN 12
        ELSE IF years >= 3 THEN 8
        ELSE IF years >= 1 THEN 5
        ELSE 0

HasAny(text_lower, words) == \E w \in words : Contains(text_lower, w)

\* the bonus the line gives, 0 when it holds no degree keyword
degree_bonus(edu) ==
    LET e == Lower(edu) IN
    IF HasAny(e, {"phd", "doctorate"}) THEN 10
    ELSE IF HasAny(e, {"master", "mba", "ms"}) THEN 7
    ELSE IF HasAny(e, {"bachelor", "b.tech", "b.e", "bs"}) THEN 4
    ELSE IF HasAny(e, {"diploma", "associate"}) THEN 2
    ELSE 0

RECURSIVE education_scan_highest(_)
\* the scan without the break statements kept as a maximum: the highest degree
\* of all lines
education_scan_highest(education) ==
    IF education = << >> THEN 0
    ELSE LET rest == education_scan_highest(Tail(education))
         IN  IF degree_bonus(Head(education)) >= rest
             THEN degree_bonus(Head(education)) ELSE rest

RECURSIVE education_scan(_)
\* for edu in education: ... break
education_scan(education) ==
    IF education = << >> THEN 0
    ELSE IF degree_bonus(Head(education)) > 0 THEN degree_bonus(Head(education))
    ELSE education_scan(Tail(education))

education_bonus(record) == education_scan(Get(record, "education", << >>))

skill_categories_covered(resume_skills) ==
    LET resume_lower == MapSeq(Lower, resume_skills) IN
    Cardinality({c \in Categories :
        \E i \in 1..Len(skill_categories[c]) :
            InList(Lower(skill_categories[c][i]), resume_lower)})

\* the bonus without the cap at 10
skills_diversity_bonus_uncapped(record) ==
    IF resume_skills_of(record) # << >>
    THEN skill_categories_covered(resume_skills_of(record)) * 2
    ELSE 0

skills_diversity_bonus(record) ==
    IF resume_skills_of(record) # << >>
    THEN Min(10, skill_categories_covered(resume_skills_of(record)) * 2)
    ELSE 0

\* final_score with the skills diversity bonus left out of the sum
final_score_without_diversity(skill_score, record) ==
    Min(10000, skill_score + 100 * experience_bonus(record)
                 + 100 * education_bonus(record))

\* final_score = min(100, overall_score + the three bonuses), in hundredths
final_score(skill_score, record) ==
    Min(10000, skill_score + 100 * experience_bonus(record)
                 + 100 * education_bonus(record)
                 + 100 * skills_diversity_bonus(record))

\* the breakdowns calculate_overall_score can return
calculate_overall_score(record, requirements) ==
    { [ overall_score |-> final_score(s, record),
        skill_score |-> s,
        experience_bonus |-> experience_bonus(record),
        education_bonus |-> education_bonus(record),
        skills_diversity_bonus |-> skills_diversity_bonus(record),
        category_scores |-> category_scores(record, requirements) ] :
      s \in skill_scores(record, requirements) }

----------------------------------------------------------------------------
(* ResumeParser *)

supported_formats == {".pdf", ".docx"}

common_skills ==
    << "python", "java", "javascript", "html", "css", "sql", "mongodb", "mysql",
       "react", "angular", "vue", "node.js", "django", "flask", "spring",
       "machine learning", "ai", "artificial intelligence", "data analysis",
       "excel", "powerbi", "tableau", "aws", "azure", "docker", "kubernetes",
       "git", "agile", "scrum", "project management", "leadership" >>

\* extract_skills matching against the text as written
extract_skills_case_sensitive(text) == FoundIn(text, common_skills)

extract_skills(text) == FoundIn(Lower(text), common_skills)

\* Regular expression steps over the text t from position i.  Each returns the
\* position after what it consumed; 0 stands for "no match".  Every quantifier of
\* the three patterns is followed by something its own characters cannot start,
\* so the greedy choice is the only one that can succeed.
RECURSIVE AfterDigits(_, _)
AfterDigits(t, i) ==        \* \d* from i
    IF i <= Len(t) /\ IsDigit(SubSeq(t, i, i)) THEN AfterDigits(t, i + 1) ELSE i

RECURSIVE AfterSpaces(_, _)
AfterSpaces(t, i) ==        \* \s*
    IF i = 0 THEN 0
    ELSE IF i <= Len(t) /\ IsSpace(SubSeq(t, i, i)) THEN AfterSpaces(t, i + 1) ELSE i

AfterOptional(t, i, c) ==   \* c?
    IF i = 0 THEN 0
    ELSE IF i <= Len(t) /\ SubSeq(t, i, i) = c THEN i + 1 ELSE i

AfterLiteral(t, i, lit) ==
    IF i = 0 THEN 0
    ELSE IF i + Len(lit) - 1 <= Len(t) /\ SubSeq(t, i, i + Len(lit) - 1) = lit
         THEN i + Len(lit) ELSE 0

AfterNumber(t, i) ==        \* (\d+)
    IF i = 0 THEN 0
    ELSE IF AfterDigits(t, i) > i THEN AfterDigits(t, i) ELSE 0

\* \+?\s*years?
AfterYears(t, i) ==
    AfterOptional(t, AfterLiteral(t, AfterSpaces(t, AfterOptional(t, i, "+")), "year"), "s")

\* each pattern matched at position p: << end of the match, group(1) >>, end 0
\* when the pattern does not match at p
\* (\d+)\+?\s*years?\s*of?\s*experience
pattern_of_experience(t, p) ==
    LET d == AfterNumber(t, p)
        y == AfterSpaces(t, AfterYears(t, d))
        o == AfterSpaces(t, AfterOptional(t, AfterLiteral(t, y, "o"), "f"))
    IN  << AfterLiteral(t, o, "experience"), SubSeq(t, p, d - 1) >>

\* experience:\s*(\d+)\+?\s*years?
pattern_experience_colon(t, p) ==
    LET g == AfterSpaces(t, AfterLiteral(t, p, "experience:"))
        d == AfterNumber(t, g)
    IN  << AfterYears(t, d), SubSeq(t, g, d - 1) >>

\* (\d+)\+?\s*years?\s*in\s*the\s*field
pattern_in_the_field(t, p) ==
    LET d == AfterNumber(t, p)
        y == AfterSpaces(t, AfterYears(t, d))
        n == AfterSpaces(t, AfterLiteral(t, y, "in"))
        h == AfterSpaces(t, AfterLiteral(t, n, "the"))
    IN  << AfterLiteral(t, h, "field"), SubSeq(t, p, d - 1) >>

experience_patterns == << 1, 2, 3 >>

pattern_at(k, t, p) ==
    IF k = 1 THEN pattern_of_experience(t, p)
    ELSE IF k = 2 THEN pattern_experience_colon(t, p)
    ELSE pattern_in_the_field(t, p)

\* re.search(pattern k, t): does it match, and group(1) of the leftmost match
pattern_matches(k, t) == \E p \in 1..Len(t) : pattern_at(k, t, p)[1] > 0

pattern_group(k, t) ==
    LET p == CHOOSE q \in 1..Len(t) :
                /\ pattern_at(k, t, q)[1] > 0
                /\ \A r \in 1..(q - 1) : pattern_at(k, t, r)[1] = 0
    IN  pattern_at(k, t, p)[2]

extract_experience(text) ==
    LET t == Lower(text)
        hits == FilterSeq(LAMBDA k : pattern_matches(k, t), experience_patterns)
    IN  IF hits # << >> THEN pattern_group(Head(hits), t) \o " years"
        ELSE "Experience not specified"

education_keywords ==
    { "bachelor", "master", "phd", "degree", "university", "college",
      "diploma", "certification", "certificate" }

RECURSIVE SplitLines(_)
\* text.split('\n')
SplitLines(text) ==
    IF ~Contains(text, "\n") THEN << text >>
    ELSE LET i == CHOOSE j \in 1..Len(text) :
                     /\ SubSeq(text, j, j) = "\n"
                     /\ \A k \in 1..(j - 1) : SubSeq(text, k, k) # "\n"
         IN  << SubSeq(text, 1, i - 1) >> \o SplitLines(SubSeq(text, i + 1, Len(text)))

extract_education(text) ==
    LET keep(line) == HasAny(Lower(line), education_keywords)
        education_lines == MapSeq(Strip, FilterSeq(keep, SplitLines(text)))
    IN  SubSeq(education_lines, 1, Min(3, Len(education_lines)))

\* len(text.split()): the number of maximal runs of non-whitespace
WordCount(text) ==
    Cardinality({i \in 1..Len(text) :
        /\ ~IsSpace(SubSeq(text, i, i))
        /\ (i = 1 \/ IsSpace(SubSeq(text, i - 1, i - 1)))})

\* Path(name).suffix: from the last dot of the name, when that dot is neither
\* the first nor the last character
Suffix(name) ==
    LET dots == {i \in 1..Len(name) : SubSeq(name, i, i) = "."}
        last == CHOOSE i \in dots : \A j \in dots : j <= i
    IN  IF dots = {} THEN ""
        ELSE IF last = 1 \/ last = Len(name) THEN ""
        ELSE SubSeq(name, last, Len(name))

RECURSIVE JoinParts(_)
\* text += part + "\n" for every page or paragraph
JoinParts(parts) ==
    IF parts = << >> THEN "" ELSE Head(parts) \o "\n" \o JoinParts(Tail(parts))

\* extract_text_from_pdf / extract_text_from_docx: the library either reads the
\* pages (paragraphs) of the document or raises, and a raise gives ""
extract_text(document) ==
    IF document.readable THEN Strip(JoinParts(document.parts)) ELSE ""

parse_resume(document) ==
    LET file_extension == Lower(Suffix(document.name))
        text == extract_text(document)
    IN  IF file_extension \notin supported_formats
        THEN [error |-> "Unsupported file format: " \o file_extension]
        ELSE IF text = ""
        THEN [error |-> "Could not extract text from file"]
        ELSE [ filename |-> document.name,
               file_type |-> file_extension,
               raw_text |-> text,
               skills |-> extract_skills(text),
               experience |-> extract_experience(text),
               education |-> extract_education(text),
               text_length |-> Len(text),
               word_count |-> WordCount(text) ]

\* the test for a key that parse_resume never sets
IsError_wrong_key(record) == "errors" \in DOMAIN record

\* 'error' in record
IsError(record) == "error" \in DOMAIN record

----------------------------------------------------------------------------
(* SkillMatcher.rank_candidates: the sort *)

RECURSIVE InsertDescending_unstable(_, _)
\* x placed in front of the elements of equal score
InsertDescending_unstable(x, sorted) ==
    IF sorted = << >> THEN << x >>
    ELSE IF Head(sorted).score_data.overall_score > x.score_data.overall_score
         THEN << Head(sorted) >> \o InsertDescending_unstable(x, Tail(sorted))
         ELSE << x >> \o sorted

RECURSIVE InsertDescending(_, _)
\* x placed behind every element whose score is at least its own: list.sort with
\* reverse=True keeps elements of equal key in their original order
InsertDescending(x, sorted) ==
    IF sorted = << >> THEN << x >>
    ELSE IF Head(sorted).score_data.overall_score >= x.score_data.overall_score
         THEN << Head(sorted) >> \o InsertDescending(x, Tail(sorted))
         ELSE << x >> \o sorted

RECURSIVE SortAscending(_)
\* the sort without reverse=True
SortAscending(list) ==
    IF list = << >> THEN << >>
    ELSE LET rest == SortAscending(SubSeq(list, 1, Len(list) - 1))
             x == list[Len(list)]
             smaller == SelectSeq(rest, LAMBDA y :
                            y.score_data.overall_score <= x.score_data.overall_score)
             larger == SelectSeq(rest, LAMBDA y :
                            y.score_data.overall_score > x.score_data.overall_score)
         IN  smaller \o << x >> \o larger

RECURSIVE SortDescending(_)
\* ranked_candidates.sort(key=overall_score, reverse=True)
SortDescending(list) ==
    IF list = << >> THEN << >>
    ELSE InsertDescending(list[Len(list)], SortDescending(SubSeq(list, 1, Len(list) - 1)))

\* the rank without the + 1
rank_of_zero_based(i) == i

\* candidate['rank'] = i + 1, for the 0-based position i of enumerate
rank_of(i) == i + 1

----------------------------------------------------------------------------
(* Inputs *)

MaxBatch == 3           \* resumes uploaded in one screening
MaxJobFrags == 2        \* pieces a job text is made of
MaxParts == 2           \* pages (paragraphs) of a resume document
MaxResumeSkills == 11   \* length of the resume skill list of a direct call
MaxRequired == 3        \* length of the required list of a direct call

\* all sequences of at most n elements of S
RECURSIVE SeqsUpTo(_, _)
SeqsUpTo(S, n) ==
    IF n = 0 THEN {<< >>}
    ELSE LET shorter == SeqsUpTo(S, n - 1)
         IN  shorter \cup {Append(q, x) : q \in shorter, x \in S}

RECURSIVE Concat(_)
Concat(pieces) == IF pieces = << >> THEN "" ELSE Head(pieces) \o Concat(Tail(pieces))

JobFragments ==
    { "We need Python, React, and AWS experience",
      "Java",
      "Script, SQL Server",
      "Linux staff wanted. ",
      "Docker + Kubernetes",
      " machine learning (AI)" }

\* the job descriptions typed into the text area
JobTexts == {Concat(q) : q \in SeqsUpTo(JobFragments, MaxJobFrags)}

ResumeFragments ==
    { "Python, React, AWS and Redis",
      "JavaScript, HTML, CSS, SQL, Docker, Git, Agile",
      "5 years of experience",
      "Experience: 12+ years",
      "PhD, MIT University",
      "Bachelor degree" }

\* one-page resumes that state their experience in different ways
ExperienceTexts ==
    { "Senior developer with 15 years of experience",
      "Sales, 1 year of experience",
      "0 years of experience",
      "Worked 7 years in the field",
      "Intern for 2 years, Experience: 4 years, Python" }

\* the uploaded files: readable documents of up to MaxParts pages, and the
\* files that parse_resume turns into error records
Documents ==
    {[name |-> "cv.pdf", readable |-> TRUE, parts |-> << t >>] : t \in ExperienceTexts}
    \cup
    {[name |-> "cv.pdf", readable |-> TRUE, parts |-> q] :
        q \in SeqsUpTo(ResumeFragments, MaxParts)}
    \cup {[name |-> "cv.DOCX", readable |-> TRUE,
           parts |-> << "Java and SQL, 3 years in the field", "Master of Science, college" >>],
          [name |-> "notes.txt", readable |-> TRUE, parts |-> << "Python" >>],
          [name |-> "scan.pdf", readable |-> FALSE, parts |-> << >>]}

\* requirement maps a caller of calculate_overall_score builds itself
GivenRequirements ==
    { [programming_languages |-> << "Python", "Java" >>,
       web_technologies |-> << "React", "Vue", "Html" >>,
       databases |-> << >>],
      [programming_languages |-> << "Python", "Java" >>],
      [devops_tools |-> << "Github" >>],
      [databases |-> << >>] }

\* the batch screening works on a few documents and job texts
SampleDocuments ==
    { [name |-> "ann.pdf", readable |-> TRUE,
       parts |-> << "Python, React, AWS and Redis", "5 years of experience" >>],
      [name |-> "bob.docx", readable |-> TRUE,
       parts |-> << "Python, React, AWS and Redis", "5 years of experience" >>],
      [name |-> "cat.pdf", readable |-> TRUE,
       parts |-> << "JavaScript, HTML, CSS, SQL, Docker, Git, Agile", "PhD, MIT University" >>],
      [name |-> "notes.txt", readable |-> TRUE, parts |-> << "Python" >>],
      [name |-> "scan.pdf", readable |-> FALSE, parts |-> << >>] }

SampleJobs ==
    { "We need Python, React, and AWS experience", "JavaScript, SQL Server", "" }

\* the job texts rank_candidates is called with
ScreeningJobs == { "We need Python, React, and AWS experience", "" }

\* parse_resume and extract_job_skills of every input, evaluated once
parsed == [d \in Documents \cup SampleDocuments |-> parse_resume(d)]

required_by == [t \in JobTexts \cup SampleJobs |-> extract_job_skills(t)]

\* the lists of a direct call of calculate_skill_match_score
ResumeSkillPool ==
    << "Python", "React", "JAVA", "Html", "Css", "Sql", "Git", "Aws", "Docker",
       "Agile", "Scrum", "Excel" >>

RequiredPool == << "Python", "React", "Aws", "java", "Redis" >>

\* the contiguous pieces of at most n elements of the pool
Windows(pool, n) ==
    {q \in {SubSeq(pool, i, j) : i \in 1..Len(pool), j \in 0..Len(pool)} : Len(q) <= n}

----------------------------------------------------------------------------
(* Screening of a batch: app.py main and SkillMatcher.rank_candidates *)

Idle ==
    /\ file = None
    /\ resume_data = None
    /\ score_data = None
    /\ match_call = None

Init ==
    /\ pc = "collect"
    /\ job_description \in ScreeningJobs
    /\ resumes_data = << >>
    /\ job_skills = None
    /\ ranked_candidates = << >>
    /\ idx = 0
    /\ Idle

\* app.py: parsed_data = parser.parse_resume(uploaded_file); append
ParseResume ==
    /\ pc = "collect"
    /\ Len(resumes_data) < MaxBatch
    /\ \E document \in SampleDocuments :
          resumes_data' = Append(resumes_data, parsed[document])
    /\ UNCHANGED << pc, job_description, file, job_skills, ranked_candidates, idx,
                    resume_data, score_data, match_call >>

\* rank_candidates is entered: job_skills and the empty list
RankBegin ==
    /\ pc = "collect"
    /\ job_skills' = required_by[job_description]
    /\ ranked_candidates' = << >>
    /\ idx' = 1
    /\ pc' = "score"
    /\ UNCHANGED << job_description, file, resumes_data, resume_data, score_data,
                    match_call >>

\* the scoring loop giving each candidate its position as rank when it is built
ScoreStep_ranking ==
    /\ pc = "score"
    /\ idx <= Len(resumes_data)
    /\ IF ~IsError(resumes_data[idx])
       THEN \E sd \in calculate_overall_score(resumes_data[idx], job_skills) :
               ranked_candidates' =
                   Append(ranked_candidates,
                          [resume_data |-> resumes_data[idx], score_data |-> sd,
                           rank |-> Len(ranked_candidates) + 1])
       ELSE UNCHANGED ranked_candidates
    /\ idx' = idx + 1
    /\ UNCHANGED << pc, job_description, file, resumes_data, job_skills, resume_data,
                    score_data, match_call >>

\* one iteration of `for resume_data in resumes_data`
ScoreStep ==
    /\ pc = "score"
    /\ idx <= Len(resumes_data)
    /\ IF ~IsError(resumes_data[idx])
       THEN \E sd \in calculate_overall_score(resumes_data[idx], job_skills) :
               ranked_candidates' =
                   Append(ranked_candidates,
                          [resume_data |-> resumes_data[idx], score_data |-> sd, rank |-> 0])
       ELSE UNCHANGED ranked_candidates
    /\ idx' = idx + 1
    /\ UNCHANGED << pc, job_description, file, resumes_data, job_skills, resume_data,
                    score_data, match_call >>

\* the loop is over: ranked_candidates.sort(...)
SortStep ==
    /\ pc = "score"
    /\ idx > Len(resumes_data)
    /\ ranked_candidates' = SortDescending(ranked_candidates)
    /\ idx' = 0
    /\ pc' = "rank"
    /\ UNCHANGED << job_description, file, resumes_data, job_skills, resume_data,
                    score_data, match_call >>

\* one iteration of `for i, candidate in enumerate(ranked_candidates)`; idx is i
RankStep ==
    /\ pc = "rank"
    /\ idx < Len(ranked_candidates)
    /\ ranked_candidates' =
          [ranked_candidates EXCEPT ![idx + 1].rank = rank_of(idx)]
    /\ idx' = idx + 1
    /\ UNCHANGED << pc, job_description, file, resumes_data, job_skills, resume_data,
                    score_data, match_call >>

\* return ranked_candidates
RankReturn ==
    /\ pc = "rank"
    /\ idx >= Len(ranked_candidates)
    /\ pc' = "done"
    /\ UNCHANGED << job_description, file, resumes_data, job_skills, ranked_candidates,
                    idx, resume_data, score_data, match_call >>

Next == ParseResume \/ RankBegin \/ ScoreStep \/ SortStep \/ RankStep \/ RankReturn

Spec == Init /\ [][Next]_vars

----------------------------------------------------------------------------
(* Single calls of the four operations *)

\* the records parse_resume returns for the documents, error records left out
ParsedResumes == {parsed[d] : d \in {e \in Documents : ~IsError(parsed[e])}}

RequirementMaps == {required_by[t] : t \in SampleJobs} \cup GivenRequirements

CallsInit ==
    /\ resumes_data = << >>
    /\ ranked_candidates = << >>
    /\ idx = 0
    /\ score_data = None
    /\ \/ /\ pc = "call extract_job_skills"
          /\ job_description \in JobTexts
          /\ job_skills = None /\ file = None /\ resume_data = None /\ match_call = None
       \/ /\ pc = "call parse_resume"
          /\ file \in Documents
          /\ job_description = "" /\ job_skills = None /\ resume_data = None
          /\ match_call = None
       \/ /\ pc = "call calculate_overall_score"
          /\ resume_data \in ParsedResumes
          /\ job_skills \in RequirementMaps
          /\ job_description = "" /\ file = None /\ match_call = None
       \/ /\ pc = "call calculate_skill_match_score"
          /\ match_call \in
                { [resume_skills |-> r, job_skills |-> j] :
                    r \in Windows(ResumeSkillPool, MaxResumeSkills),
                    j \in Windows(RequiredPool, MaxRequired) }
          /\ job_description = "" /\ job_skills = None /\ file = None
          /\ resume_data = None

ExtractJobSkills ==
    /\ pc = "call extract_job_skills"
    /\ job_skills' = required_by[job_description]
    /\ pc' = "extract_job_skills returned"
    /\ UNCHANGED << job_description, file, resumes_data, ranked_candidates, idx,
                    resume_data, score_data, match_call >>

ParseOne ==
    /\ pc = "call parse_resume"
    /\ resume_data' = parsed[file]
    /\ pc' = "parse_resume returned"
    /\ UNCHANGED << job_description, file, resumes_data, job_skills, ranked_candidates,
                    idx, score_data, match_call >>

CalculateOverallScore ==
    /\ pc = "call calculate_overall_score"
    /\ score_data' \in calculate_overall_score(resume_data, job_skills)
    /\ pc' = "calculate_overall_score returned"
    /\ UNCHANGED << job_description, file, resumes_data, job_skills, ranked_candidates,
                    idx, resume_data, match_call >>

\* the call's locals matches and coverage_bonus are kept beside its result;
\* coverage_bonus as its numerator over len(job_skills)
CalculateSkillMatchScore ==
    /\ pc = "call calculate_skill_match_score"
    /\ match_call' =
          [ resume_skills |-> match_call.resume_skills,
            job_skills |-> match_call.job_skills,
            matches |-> matches(match_call.resume_skills, match_call.job_skills),
            coverage_bonus_num |->
                coverage_bonus_num(match_call.resume_skills, match_call.job_skills),
            score |->
                calculate_skill_match_score(match_call.resume_skills, match_call.job_skills) ]
    /\ pc' = "calculate_skill_match_score returned"
    /\ UNCHANGED << job_description, file, resumes_data, job_skills, ranked_candidates,
                    idx, resume_data, score_data >>

CallsNext ==
    ExtractJobSkills \/ ParseOne \/ CalculateOverallScore \/ CalculateSkillMatchScore

SpecCalls == CallsInit /\ [][CallsNext]_vars

----------------------------------------------------------------------------
(* Properties of calculate_overall_score *)

Scored == pc = "calculate_overall_score returned"

\* skill_score + the three bonuses of the returned breakdown, before the cap
BreakdownSum ==
    score_data.skill_score + 100 * score_data.experience_bonus
      + 100 * score_data.education_bonus + 100 * score_data.skills_diversity_bonus

\* C1: for every resume record and every job-requirements map the returned
\* skill_score and overall_score both lie between 0 and 100, whatever the sum of
\* the three bonuses is.
C1_ScoresInRange ==
    Scored =>
        /\ 0 <= score_data.skill_score /\ score_data.skill_score <= 10000
        /\ 0 <= score_data.overall_score /\ score_data.overall_score <= 10000

\* a breakdown whose skill score and bonuses add up to more than 100
C1_Witness == Scored /\ BreakdownSum > 10000 /\ score_data.overall_score = 10000

\* C5: the returned overall_score equals min(100, skill_score + experience_bonus
\* + education_bonus + skills_diversity_bonus) of the same breakdown.
C5_OverallIsCappedSum ==
    Scored => score_data.overall_score = Min(10000, BreakdownSum)

\* a breakdown below the cap in which every one of the four terms counts
C5_Witness ==
    /\ Scored
    /\ score_data.skill_score > 0
    /\ score_data.experience_bonus > 0
    /\ score_data.education_bonus > 0
    /\ score_data.skills_diversity_bonus > 0
    /\ BreakdownSum < 10000

\* the categories of the job map whose required list is not empty
RequiredCategories == {c \in DOMAIN job_skills : job_skills[c] # << >>}

RECURSIVE SumOfScores(_)
SumOfScores(S) ==
    IF S = {} THEN 0
    ELSE LET c == CHOOSE k \in S : TRUE
         IN  score_data.category_scores[c] + SumOfScores(S \ {c})

\* C10: category_scores has exactly the categories of the job map with a non-empty
\* required list as keys (a subset of the job map's keys); skill_score is the mean
\* of those category scores rounded to 2 decimals (at most half a hundredth away
\* from the mean), and it is 0 when no category has required skills, in particular
\* when the job map is empty.
C10_SkillScoreIsMean ==
    Scored =>
        LET keys == DOMAIN score_data.category_scores
            n == Cardinality(RequiredCategories)
            total == SumOfScores(RequiredCategories)
            s == score_data.skill_score
        IN  /\ keys = RequiredCategories
            /\ keys \subseteq DOMAIN job_skills
            /\ n > 0 => /\ 2 * (n * s - total) <= n
                        /\ 2 * (total - n * s) <= n
            /\ n = 0 => s = 0
            /\ DOMAIN job_skills = {} => s = 0

\* a job map with an empty required list beside two categories that the resume
\* matches differently
C10_Witness ==
    /\ Scored
    /\ RequiredCategories # DOMAIN job_skills
    /\ \E c, d \in RequiredCategories :
          score_data.category_scores[c] > score_data.category_scores[d]
    /\ score_data.skill_score > 0

----------------------------------------------------------------------------
(* Properties of rank_candidates *)

Ranked == pc = "done"

HasErrorKey(record) == "error" \in DOMAIN record

\* the records of the batch that are not error records, in batch order
ValidInput == SelectSeq(resumes_data, LAMBDA r : ~HasErrorKey(r))

Occurrences(x, list) == Cardinality({i \in 1..Len(list) : list[i] = x})

\* C2: the returned list is in non-increasing order of overall_score.
C2_NonIncreasing ==
    Ranked =>
        \A i \in 1..(Len(ranked_candidates) - 1) :
            ranked_candidates[i].score_data.overall_score
              >= ranked_candidates[i + 1].score_data.overall_score

\* a batch whose first valid resume scores lower than a later one, so that the
\* sort has to move it
C2_Witness ==
    /\ Ranked
    /\ Len(ranked_candidates) >= 2
    /\ ranked_candidates[1].score_data.overall_score
         > ranked_candidates[2].score_data.overall_score
    /\ ranked_candidates[1].resume_data # ValidInput[1]

\* C3: with N valid candidates the returned ranks are exactly 1..N and the
\* candidate at list position i (counted from 0) has rank i + 1, also when
\* candidates have equal overall_score.
C3_DenseRanks ==
    Ranked =>
        /\ Len(ranked_candidates) = Len(ValidInput)
        /\ \A i \in 1..Len(ranked_candidates) : ranked_candidates[i].rank = i
        /\ {ranked_candidates[i].rank : i \in 1..Len(ranked_candidates)}
             = 1..Len(ValidInput)

\* a returned list with two candidates of equal overall_score
C3_Witness ==
    /\ Ranked
    /\ \E i \in 1..(Len(ranked_candidates) - 1) :
          ranked_candidates[i].score_data.overall_score
            = ranked_candidates[i + 1].score_data.overall_score

\* C4: the returned list contains every valid record of the batch exactly once
\* and no error record, in whatever order the two kinds are mixed; a batch of
\* error records only, or an empty batch, gives the empty list.
C4_ErrorRecordsLeftOut ==
    Ranked =>
        /\ \A i \in 1..Len(ranked_candidates) :
              ~HasErrorKey(ranked_candidates[i].resume_data)
        /\ Len(ranked_candidates) = Len(ValidInput)
        /\ \A i \in 1..Len(ValidInput) :
              Occurrences(ValidInput[i],
                          [k \in 1..Len(ranked_candidates) |->
                              ranked_candidates[k].resume_data])
                = Occurrences(ValidInput[i], ValidInput)
        /\ ValidInput = << >> => ranked_candidates = << >>

\* a batch with a valid record between two error records
C4_Witness ==
    /\ Ranked
    /\ Len(resumes_data) = 3
    /\ HasErrorKey(resumes_data[1])
    /\ ~HasErrorKey(resumes_data[2])
    /\ HasErrorKey(resumes_data[3])
    /\ Len(ranked_candidates) = 1

----------------------------------------------------------------------------
(* Properties of parse_resume and extract_job_skills *)

Parsed == pc = "parse_resume returned" /\ ~HasErrorKey(resume_data)

SetOf(list) == {list[i] : i \in 1..Len(list)}

\* the title-cased phrases of the list that occur in the text, case-insensitively
PhrasesIn(text, phrases) ==
    {Title(phrases[i]) : i \in {k \in 1..Len(phrases) : Contains(Lower(text), phrases[k])}}

JobSkillsReturned == pc = "extract_job_skills returned"

\* the positions of the category's skills that occur in the job text
MatchedAt(c) ==
    {i \in 1..Len(skill_categories[c]) :
        Contains(Lower(job_description), skill_categories[c][i])}

\* C7: a taxonomy category is a key of the returned map if and only if one of
\* its skills is a case-insensitive substring of the job text; the value of a
\* key is the non-empty list of exactly the matched skills of the category,
\* title-cased and in taxonomy order.
C7_CategoriesAndSkills ==
    JobSkillsReturned =>
        \A c \in Categories :
            /\ c \in DOMAIN job_skills <=> MatchedAt(c) # {}
            /\ c \in DOMAIN job_skills =>
                  /\ Len(job_skills[c]) = Cardinality(MatchedAt(c))
                  /\ Len(job_skills[c]) > 0
                  /\ \A i \in MatchedAt(c) :
                        job_skills[c][1 + Cardinality({j \in MatchedAt(c) : j < i})]
                          = Title(skill_categories[c][i])

\* a job text written with capitals that matches two skills of one category and
\* none of another
C7_Witness ==
    /\ JobSkillsReturned
    /\ \E c \in DOMAIN job_skills : Len(job_skills[c]) >= 2
    /\ \E c \in Categories : c \notin DOMAIN job_skills
    /\ Lower(job_description) # job_description

Example2 == "We need Python, React, and AWS experience"

\* C8 as stated: for the job text of Example 2 the map is exactly
\* {programming_languages: ["Python"], web_technologies: ["React"],
\* cloud_platforms: ["Aws"]}.
C8_Example2AsStated ==
    (JobSkillsReturned /\ job_description = Example2) =>
        job_skills = [ programming_languages |-> << "Python" >>,
                       web_technologies |-> << "React" >>,
                       cloud_platforms |-> << "Aws" >> ]

\* C8 as amended: for the job text of Example 2 the map is exactly
\* {programming_languages: ["Python", "R"], web_technologies: ["React"],
\* cloud_platforms: ["Aws"]}: the taxonomy phrase "r" is a substring of the text.
C8_Example2WithR ==
    (JobSkillsReturned /\ job_description = Example2) =>
        job_skills = [ programming_languages |-> << "Python", "R" >>,
                       web_technologies |-> << "React" >>,
                       cloud_platforms |-> << "Aws" >> ]

C8_Witness == JobSkillsReturned /\ job_description = Example2

----------------------------------------------------------------------------
(* Properties of calculate_skill_match_score *)

Example3 ==
    /\ pc = "calculate_skill_match_score returned"
    /\ match_call.resume_skills = << "Python", "React" >>
    /\ match_call.job_skills = << "Python", "React", "Aws" >>

\* C9 as stated: for the resume skills {"Python", "React"} against the required
\* list ["Python", "React", "Aws"], matches = 2, the coverage bonus is 13.33 and
\* the category score is 81.0.
C9_Example3AsStated ==
    Example3 =>
        /\ match_call.matches = 2
        /\ 1333 \in round2(match_call.coverage_bonus_num, Len(match_call.job_skills))
        /\ match_call.score = 8100

\* C9 as amended: for the same call, matches = 2, the coverage bonus is
\* min(10, 13.33) = 10 and the category score is 77.67.
C9_Example3Capped ==
    Example3 =>
        /\ match_call.matches = 2
        /\ match_call.coverage_bonus_num = 1000 * Len(match_call.job_skills)
        /\ match_call.score = 7767

C9_Witness == Example3 /\ match_call.matches = 2

----------------------------------------------------------------------------
(* Monotonicity of skill_score in the resume text *)

\* the record of the resume text with the phrase added as one more page or
\* paragraph: extract_text joins the parts with "\n"
WithPhrase(record, phrase) ==
    LET text == record.raw_text \o "\n" \o phrase
    IN  [record EXCEPT !.raw_text = text,
                       !.skills = extract_skills(text),
                       !.experience = extract_experience(text),
                       !.education = extract_education(text),
                       !.text_length = Len(text),
                       !.word_count = WordCount(text)]

\* the skills the job requirements name, over all categories
RequiredSkills == UNION {SetOf(job_skills[c]) : c \in DOMAIN job_skills}

\* C11: for every resume text and every skill s some category of the job
\* requires, the skill_score of the text with the phrase s added, scored against
\* the same requirements, is not lower than the skill_score of the original
\* text; where the addition leaves every category score as it was, the same
\* division is rounded and the skill_score is the same.
C11_AddingPhraseNeverLowers ==
    Scored =>
        \A s \in RequiredSkills :
            LET extended == WithPhrase(resume_data, s)
            IN  IF category_scores(extended, job_skills) = score_data.category_scores
                THEN score_data.skill_score \in skill_scores(extended, job_skills)
                ELSE \A v \in skill_scores(extended, job_skills) :
                        v >= score_data.skill_score

\* a text whose skill_score the added phrase raises, and one it leaves alone
C11_Witness ==
    /\ Scored
    /\ \E s \in RequiredSkills :
          \A v \in skill_scores(WithPhrase(resume_data, s), job_skills) :
              v > score_data.skill_score
    /\ \E s \in RequiredSkills :
          WithPhrase(resume_data, s).skills = resume_data.skills

----------------------------------------------------------------------------
(* The category score *)

MatchReturned == pc = "calculate_skill_match_score returned"

\* m: the positions of J whose skill is, letter case aside, a skill of R
MatchingPositions(J, R) ==
    {i \in 1..Len(J) : \E k \in 1..Len(R) : Lower(J[i]) = Lower(R[k])}

\* |J| * min(100, 100 * m / |J| + min(5, 0.5 * |R|) + min(10, 20 * m / |J|)), in
\* hundredths
CategoryScoreTimesJ(J, R) ==
    LET count == Cardinality(MatchingPositions(J, R))
        bonus == IF 50 * Len(R) < 500 THEN 50 * Len(R) ELSE 500
        coverage == IF 2000 * count < 1000 * Len(J) THEN 2000 * count ELSE 1000 * Len(J)
        sum == 10000 * count + bonus * Len(J) + coverage
    IN  IF sum < 10000 * Len(J) THEN sum ELSE 10000 * Len(J)

\* C12: for a required list J and a resume skill list R,
\* calculate_skill_match_score returns 0.0 when J or R is empty, and otherwise
\* min(100, 100 * m / |J| + min(5, 0.5 * |R|) + min(10, 20 * m / |J|)) rounded
\* to 2 decimals, m being the number of skills of J that occur in R when letter
\* case is ignored.
C12_CategoryScoreFormula ==
    MatchReturned =>
        LET J == match_call.job_skills
            R == match_call.resume_skills
        IN  IF J = << >> \/ R = << >> THEN match_call.score = 0
            ELSE match_call.score \in round2(CategoryScoreTimesJ(J, R), Len(J))

\* more than ten resume skills, more than half but not all of J matched, one
\* of them in another letter case: both inner caps bind and the sum is rounded
C12_Witness ==
    /\ MatchReturned
    /\ Len(match_call.resume_skills) > 10
    /\ 2 * match_call.matches > Len(match_call.job_skills)
    /\ match_call.matches < Len(match_call.job_skills)
    /\ \E i \in MatchingPositions(match_call.job_skills, match_call.resume_skills) :
          ~InList(match_call.job_skills[i], match_call.resume_skills)
    /\ match_call.score % 100 # 0

----------------------------------------------------------------------------
(* The experience bonus *)

Unspecified == resume_data.experience = "Experience not specified"

\* the years extract_experience found: the number in front of " years"
ExtractedYears ==
    ParseInt(SubSeq(resume_data.experience, 1,
                    Len(resume_data.experience) - Len(" years")))

BonusOfYears(years) ==
    IF years < 1 THEN 0
    ELSE IF years < 3 THEN 5
    ELSE IF years < 5 THEN 8
    ELSE IF years < 8 THEN 12
    ELSE 15

\* the bonus is 0 when experience is unspecified and BonusOfYears of the
\* extracted years otherwise
BonusFollowsYears ==
    score_data.experience_bonus = IF Unspecified THEN 0 ELSE BonusOfYears(ExtractedYears)

Example1 == "5 years of experience"

\* the positions of the text where the phrase begins, letter case aside
PositionsOf(phrase, text) ==
    {p \in 1..Len(text) :
        /\ p + Len(phrase) - 1 <= Len(text)
        /\ Lower(SubSeq(text, p, p + Len(phrase) - 1)) = phrase}

----------------------------------------------------------------------------
(* The education bonus *)

DegreeKeywords ==
    << {"phd", "doctorate"}, {"master", "mba", "ms"},
       {"bachelor", "b.tech", "b.e", "bs"}, {"diploma", "associate"} >>

DegreePoints == << 10, 7, 4, 2 >>

\* the degree groups with a keyword inside the line, letter case aside
GroupsIn(line) ==
    {g \in 1..Len(DegreeKeywords) :
        \E w \in DegreeKeywords[g] : PositionsOf(w, line) # {}}

\* the education lines that hold a degree keyword, by position
DegreeLines == {i \in 1..Len(resume_data.education) : GroupsIn(resume_data.education[i]) # {}}

\* C14: the education bonus is decided by the first education line that
\* contains any degree keyword, and no later line changes it even when it names
\* a higher degree: that line gives 10 for phd/doctorate, 7 for master/mba/ms, 4
\* for bachelor/b.tech/b.e/bs and 2 for diploma/associate (the first of these
\* groups the line has a keyword of); with no such line the bonus is 0.
C14_FirstDegreeLineDecides ==
    Scored =>
        IF DegreeLines = {} THEN score_data.education_bonus = 0
        ELSE \E i \in DegreeLines :
                /\ \A k \in DegreeLines : i <= k
                /\ \E g \in GroupsIn(resume_data.education[i]) :
                      /\ \A h \in GroupsIn(resume_data.education[i]) : g <= h
                      /\ score_data.education_bonus = DegreePoints[g]

\* a bachelor line first and a doctorate line behind it: the bonus is 4
C14_Witness ==
    /\ Scored
    /\ \E i, k \in DegreeLines :
          /\ i < k
          /\ \A j \in DegreeLines : i <= j
          /\ 3 \in GroupsIn(resume_data.education[i])
          /\ 1 \in GroupsIn(resume_data.education[k])
    /\ score_data.education_bonus = 4

----------------------------------------------------------------------------
(* The skills diversity bonus *)

\* the taxonomy categories with a skill that is, letter case aside, one of the
\* resume's skills
CoveredCategories ==
    {c \in Categories :
        \E i \in 1..Len(skill_categories[c]), k \in 1..Len(resume_data.skills) :
            Lower(skill_categories[c][i]) = Lower(resume_data.skills[k])}

\* C15: the skills diversity bonus equals min(10, 2 * c), c being the number
\* of taxonomy categories with at least one skill present, letter case aside, in
\* the resume's skill set; it is 0 for an empty skill set and never above 10.
C15_DiversityBonus ==
    Scored =>
        /\ score_data.skills_diversity_bonus =
              IF 2 * Cardinality(CoveredCategories) < 10
              THEN 2 * Cardinality(CoveredCategories) ELSE 10
        /\ resume_data.skills = << >> => score_data.skills_diversity_bonus = 0
        /\ score_data.skills_diversity_bonus <= 10

\* a resume with skills of six categories: the cap holds the bonus at 10
C15_Witness ==
    /\ Scored
    /\ Cardinality(CoveredCategories) >= 6
    /\ score_data.skills_diversity_bonus = 10

----------------------------------------------------------------------------
(* Candidates of equal overall_score *)

\* the overall_score the returned list holds for a record of the batch
ScoreOf(record) ==
    LET i == CHOOSE k \in 1..Len(ranked_candidates) :
                 ranked_candidates[k].resume_data = record
    IN  ranked_candidates[i].score_data.overall_score

\* the records of the returned candidates whose overall_score is v, in list order
ReturnedAt(v) ==
    LET level == SelectSeq(ranked_candidates, LAMBDA c : c.score_data.overall_score = v)
    IN  [i \in 1..Len(level) |-> level[i].resume_data]

\* the valid records of the batch whose overall_score is v, in batch order
SubmittedAt(v) == SelectSeq(ValidInput, LAMBDA r : ScoreOf(r) = v)

ReturnedScores ==
    {ranked_candidates[i].score_data.overall_score : i \in 1..Len(ranked_candidates)}

\* C16: the valid candidates of equal overall_score appear in the returned
\* list in the same relative order as in the input batch, and equal records get
\* equal scores, so that the returned list is determined by the input sequence
\* and the job text.
C16_TiesKeepInputOrder ==
    Ranked =>
        /\ \A r \in SetOf(ValidInput) :
              \E k \in 1..Len(ranked_candidates) : ranked_candidates[k].resume_data = r
        /\ \A v \in ReturnedScores : ReturnedAt(v) = SubmittedAt(v)
        /\ \A i, k \in 1..Len(ranked_candidates) :
              ranked_candidates[i].resume_data = ranked_candidates[k].resume_data =>
                  ranked_candidates[i].score_data = ranked_candidates[k].score_data

\* two different resumes of equal overall_score behind a lower-scored one in
\* the batch: the sort moves both forward and keeps their order
C16_Witness ==
    /\ Ranked
    /\ Len(ValidInput) = 3
    /\ ranked_candidates[1].resume_data # ranked_candidates[2].resume_data
    /\ ranked_candidates[1].score_data.overall_score
         = ranked_candidates[2].score_data.overall_score
    /\ ranked_candidates[3].resume_data = ValidInput[1]
    /\ ranked_candidates[1].resume_data = ValidInput[2]
    /\ ranked_candidates[2].resume_data = ValidInput[3]
    /\ ranked_candidates[3].score_data.overall_score
         < ranked_candidates[2].score_data.overall_score

----------------------------------------------------------------------------
(* Ranks come after the scores *)

\* some valid record of the batch has no candidate record yet
ScoringUnfinished == Len(ranked_candidates) < Len(ValidInput)

\* C17: in rank_candidates, while some valid candidate of the batch has no
\* score yet every candidate record built so far has the placeholder rank 0, and
\* once the operation has finished no returned candidate has rank 0.
C17_RanksAfterScoring ==
    /\ ScoringUnfinished =>
          \A i \in 1..Len(ranked_candidates) : ranked_candidates[i].rank = 0
    /\ Ranked =>
          \A i \in 1..Len(ranked_candidates) : ranked_candidates[i].rank # 0

\* the scoring loop between two valid candidates: one is built, one is not
C17_Witness ==
    /\ pc = "score"
    /\ ScoringUnfinished
    /\ Len(ranked_candidates) >= 1
    /\ ranked_candidates[1].rank = 0

----------------------------------------------------------------------------
(* The fallback of extract_job_skills *)

\* the taxonomy pass finds no phrase in the job text
NothingMatched == \A c \in Categories : MatchedAt(c) = {}

\* C18: the map extract_job_skills returns never has the key general_skills:
\* every phrase of the fallback list basic_skills is a taxonomy phrase, so when
\* the taxonomy pass finds nothing the fallback pass finds nothing either and
\* the result is the empty map.
C18_NoGeneralSkills ==
    /\ SetOf(basic_skills) \subseteq SetOf(all_skills)
    /\ JobSkillsReturned =>
          /\ "general_skills" \notin DOMAIN job_skills
          /\ NothingMatched => job_skills = EmptyMap

\* a job text that is not empty and holds no taxonomy phrase: the fallback
\* pass runs and the empty map is returned
C18_Witness ==
    /\ JobSkillsReturned
    /\ job_description # ""
    /\ NothingMatched
    /\ job_skills = EmptyMap

=============================================================================
